---- MODULE Spec2Model ----
(***************************************************************************)
(* A model of gpt-proxy-split's chat proxy: proxyRequest and the two       *)
(* relays (proxyPlainResponse, proxySSEResponse) of proxy.go, over the     *)
(* SQLite tables and statements of db.go, with the commands of main.go     *)
(* and the prompt-style proxyRequest.                                      *)
(*                                                                         *)
(* Strings the code slices (header values, stream lines) are sequences of  *)
(* pieces, so that TrimPrefix, HasPrefix, line[5:] and TrimSpace are       *)
(* computed rather than assumed.  A request's fields are fixed at the      *)
(* point the handler first reads them: an unread field cannot influence    *)
(* the handler.  The upstream body is produced as the relay reads it.      *)
(***************************************************************************)
EXTENDS Integers, Sequences, FiniteSets, TLC

----------------------------------------------------------------------------
(* Bounds of the model *)

\* lines the upstream emits on one streamed body (relay specification)
MaxLines == 6
\* lines the upstream emits in one block of a streamed body, the blank
\* line that ends it included
MaxBlockLines == 3
\* lines the upstream emits on one streamed body (system specification)
MaxSysLines == 2
\* administrative commands (set-user-key, delete-user) run beside the server
MaxAdminOps == 2
\* lines the upstream emits on one streamed body (deadline specification)
MaxLiveLines == 4

\* connections of the pool (sqlitex's default when Options.PoolSize is unset)
PoolSize == 10

\* the inbound calls in flight: two, so that every pair of steps can interleave
Calls == {"c1", "c2"}

----------------------------------------------------------------------------
(* Strings and HTTP headers *)

BEARER == "Bearer "
DATA == "data:"
SP == " "
NL == "\n"
CR == "\r"
DONE == "[DONE]"
DefaultProject == <<"<default>">>

\* strings.TrimPrefix(s, prefix), prefix a single piece
TrimPrefix(s, prefix) ==
    IF Len(s) > 0 /\ s[1] = prefix THEN Tail(s) ELSE s

\* strings.HasPrefix(s, prefix), prefix a single piece
HasPrefix(s, prefix) == Len(s) > 0 /\ s[1] = prefix

IsSpace(p) == p \in {SP, NL, CR}

RECURSIVE TrimLeft(_)
TrimLeft(s) ==
    IF Len(s) > 0 /\ IsSpace(s[1]) THEN TrimLeft(Tail(s)) ELSE s

RECURSIVE TrimRight(_)
TrimRight(s) ==
    IF Len(s) > 0 /\ IsSpace(s[Len(s)])
    THEN TrimRight(SubSeq(s, 1, Len(s) - 1))
    ELSE s

\* strings.TrimSpace
TrimSpace(s) == TrimRight(TrimLeft(s))

\* http.Header: a map from key to its values
EmptyHeader == [k \in {} |-> <<>>]

HeaderSet(h, k, v) ==
    [x \in DOMAIN h \cup {k} |-> IF x = k THEN <<v>> ELSE h[x]]

\* Header.Get: the first value, "" when the key is absent
HeaderGet(h, k) ==
    IF k \in DOMAIN h /\ Len(h[k]) > 0 THEN h[k][1] ELSE <<>>

\* for k, vs := range resp.Header { h.Del(k); for v in vs { h.Add(k, v) } }
CopyHeaders(h, rh) ==
    [x \in DOMAIN h \cup DOMAIN rh |-> IF x \in DOMAIN rh THEN rh[x] ELSE h[x]]

----------------------------------------------------------------------------
(* The response writer of net/http, as the handler drives it *)

NewWriter ==
    [header |-> EmptyHeader, wroteHeader |-> FALSE, statusLine |-> <<>>,
     sent |-> EmptyHeader, body |-> <<>>, flushed |-> 0,
     \* where the call stood when the client left ("": still there), and how
     \* many chunks the client had received by then
     goneAt |-> "", got |-> 0]

\* the client has closed its connection: what is written from now on is lost
Gone(rw) == rw.goneAt # ""

\* w.WriteHeader(code): the first call sends the status line with a snapshot
\* of the header map; a later call is superfluous and changes nothing
WriteHeader(rw, code) ==
    IF rw.wroteHeader THEN rw
    ELSE [rw EXCEPT !.wroteHeader = TRUE,
                    !.statusLine = Append(@, code),
                    !.sent = rw.header]

\* w.Write(data): an implicit WriteHeader(200) when none was made
Write(rw, data) ==
    LET h == WriteHeader(rw, 200)
    IN [h EXCEPT !.body = Append(@, data)]

\* flusher.Flush()
Flush(rw) ==
    LET h == WriteHeader(rw, 200)
    IN [h EXCEPT !.flushed = Len(h.body)]

\* http.Error(w, text, code) of go 1.19
HttpError(rw, text, code) ==
    LET h1 == [rw EXCEPT !.header =
                 HeaderSet(HeaderSet(@, "Content-Type", <<"text/plain">>),
                           "X-Content-Type-Options", <<"nosniff">>)]
    IN Write(WriteHeader(h1, code), <<text, NL>>)

\* the status the client received (0: none yet)
Status(rw) == IF Len(rw.statusLine) = 0 THEN 0 ELSE rw.statusLine[1]

----------------------------------------------------------------------------
(* Requests, tokenizer and upstream data *)

SupportedModels == {"gpt-4", "gpt-3.5-turbo"}

\* a tokenizer lookup that accepts every model name
ForModelOkAny(model) == TRUE

\* tokenizer.ForModel(model): err iff the model is unknown to the tokenizer
ForModelOk(model) == model \in SupportedModels

\* len(ids) of tk.Encode(content): a content is the sequence of its tokens
TokenCount(content) == Len(content)

RECURSIVE SumTokens(_)
SumTokens(contents) ==
    IF contents = <<>> THEN 0
    ELSE TokenCount(Head(contents)) + SumTokens(Tail(contents))

\* the zero value of completionRequestBody
ZeroCrb == [Model |-> "", Messages |-> <<>>, Stream |-> FALSE]

\* A request body stands for its bytes: wellFormed says whether they are
\* JSON of the expected shape, extra stands for fields the decoder drops.
NoBody ==
    [wellFormed |-> FALSE, Model |-> "", Messages |-> <<>>,
     Stream |-> FALSE, extra |-> ""]

MkBody(model, messages, stream, extra) ==
    [wellFormed |-> TRUE, Model |-> model, Messages |-> messages,
     Stream |-> stream, extra |-> extra]

MalformedBody ==
    [wellFormed |-> FALSE, Model |-> "", Messages |-> <<>>,
     Stream |-> FALSE, extra |-> "{"]

\* json.Unmarshal(requestBody, &crb)
UnmarshalRequest(body) ==
    [err |-> ~body.wellFormed,
     crb |-> IF body.wellFormed
             THEN [Model |-> body.Model, Messages |-> body.Messages,
                   Stream |-> body.Stream]
             ELSE ZeroCrb]

\* Bodies of a non-streamed upstream response, as their bytes.
BodyTokens7 == "{\"usage\":{\"total_tokens\":7}}"
BodyTokens7Spaced == "{\"id\":\"c1\", \"usage\": {\"total_tokens\": 7}}"
BodyTokens12 == "{\"usage\":{\"total_tokens\":12}}"
BodyNoUsage == "{\"id\":\"c2\"}"
BodyNotJSON == "<html>"
BodyWrongType == "{\"usage\":\"none\"}"
BodyRateLimit == "{\"error\":\"rate limit\"}"
BodyEmpty == ""

\* json.Unmarshal(responseBody, &crespb)
UnmarshalResponse(bytes) ==
    CASE bytes = BodyTokens7 -> [err |-> FALSE, TotalTokens |-> 7]
      [] bytes = BodyTokens7Spaced -> [err |-> FALSE, TotalTokens |-> 7]
      [] bytes = BodyTokens12 -> [err |-> FALSE, TotalTokens |-> 12]
      [] bytes = BodyNoUsage -> [err |-> FALSE, TotalTokens |-> 0]
      [] bytes = BodyRateLimit -> [err |-> FALSE, TotalTokens |-> 0]
      [] OTHER -> [err |-> TRUE, TotalTokens |-> 0]

\* json.Marshal of a decoded completionResponseBody
MarshalResponse(n) ==
    CASE n = 7 -> BodyTokens7
      [] n = 12 -> BodyTokens12
      [] OTHER -> "{\"usage\":{\"total_tokens\":0}}"

\* Payloads of a streamed block's data line, as their bytes
PayloadHi == "{\"choices\":[{\"delta\":{\"content\":\"Hi\"}}]}"
PayloadHelloWorld == "{\"choices\":[{\"delta\":{\"content\":\"Hello world\"}}]}"
PayloadNoChoice == "{\"choices\":[]}"
PayloadTwoChoices == "{\"choices\":[{\"delta\":{}},{\"delta\":{}}]}"
PayloadGarbage == "{oops"

\* a line "data: <payload>\n"
DataLine(payload) == <<DATA, SP, payload, NL>>
BlankLine == <<NL>>
CommentLine == <<": ping", NL>>

\* json.Unmarshal([]byte(msg), &respBody): msg is the concatenation of the
\* payloads of the block's data lines; Choices holds each choice's
\* Delta.Content as its tokens
UnmarshalStreamed(msg) ==
    CASE msg = <<PayloadHi>> ->
           [err |-> FALSE, Choices |-> << <<"Hi">> >>]
      [] msg = <<PayloadHelloWorld>> ->
           [err |-> FALSE, Choices |-> << <<"Hello", " world">> >>]
      [] msg = <<PayloadNoChoice>> ->
           [err |-> FALSE, Choices |-> <<>>]
      [] msg = <<PayloadTwoChoices>> ->
           [err |-> FALSE, Choices |-> << <<>>, <<>> >>]
      [] OTHER -> [err |-> TRUE, Choices |-> <<>>]

----------------------------------------------------------------------------
(* The tables of db.go and its statements *)

VARIABLES
    users,      \* rows [id, name, key] of table users
    projects,   \* rows [id, user_id, name] of table projects
    models,     \* rows [id, name] of table models
    usage,      \* rows [model_id, project_id, tokens] of table usage, oldest first
    pool,       \* connections left in the pool
    alive,      \* FALSE once the process has exited (os.Exit)
    nAdmin,     \* administrative commands run so far
    adminOut,   \* the last set-user-key or delete-user and how it ended
    pc,         \* where each call stands in proxyRequest
    req,        \* the inbound request of each call, as far as it was read
    loc,        \* the locals of each call
    up,         \* the outbound request and the upstream response of each call
    w           \* the http.ResponseWriter of each call

vars == <<users, projects, models, usage, pool, alive, nAdmin, adminOut, pc, req,
          loc, up, w>>
admin == <<nAdmin, adminOut>>
tables == <<users, projects, models, usage>>

Max(S) == CHOOSE x \in S : \A y \in S : y <= x

\* the rowid SQLite gives a new row of an INTEGER PRIMARY KEY table
NextRowID(rows) == IF rows = {} THEN 1 ELSE Max({r.id : r \in rows}) + 1

\* findUserByKey without its WHERE clause: any user's row answers
findUserByKeyAnyRow(apiKey) ==
    IF users = {}
    THEN [userID |-> 0, userName |-> "", userFound |-> FALSE]
    ELSE LET u == CHOOSE u \in users : TRUE
         IN [userID |-> u.id, userName |-> u.name, userFound |-> TRUE]

\* SELECT id, name FROM users WHERE KEY = :apiKey
findUserByKey(apiKey) ==
    LET hit == {u \in users : u.key = apiKey}
    IN IF hit = {}
       THEN [userID |-> 0, userName |-> "", userFound |-> FALSE]
       ELSE LET u == CHOOSE u \in hit : TRUE
            IN [userID |-> u.id, userName |-> u.name, userFound |-> TRUE]

\* insertProject on a table without UNIQUE (user_id, name)
insertProjectNoUnique(userID, name) ==
    IF ~ \E u \in users : u.id = userID
    THEN [err |-> TRUE, rows |-> projects]
    ELSE [err |-> FALSE,
          rows |-> projects \cup
                   {[id |-> NextRowID(projects), user_id |-> userID, name |-> name]}]

\* INSERT OR IGNORE INTO projects (user_id, name): a row with the same
\* (user_id, name) makes it a no-op; a user_id that is no user's id fails
\* the foreign key
insertProject(userID, name) ==
    IF \E p \in projects : p.user_id = userID /\ p.name = name
    THEN [err |-> FALSE, rows |-> projects]
    ELSE IF ~ \E u \in users : u.id = userID
    THEN [err |-> TRUE, rows |-> projects]
    ELSE [err |-> FALSE,
          rows |-> projects \cup
                   {[id |-> NextRowID(projects), user_id |-> userID, name |-> name]}]

\* selectProject that looks the name up without the user
selectProjectByName(userID, name) ==
    LET hit == {p \in projects : p.name = name}
    IN IF hit = {} THEN 0 ELSE (CHOOSE p \in hit : TRUE).id

\* SELECT id FROM projects WHERE user_id = :userID AND name = :name
selectProject(userID, name) ==
    LET hit == {p \in projects : p.user_id = userID /\ p.name = name}
    IN IF hit = {} THEN 0 ELSE (CHOOSE p \in hit : TRUE).id

\* INSERT OR IGNORE INTO models (name)
insertModel(name) ==
    IF \E m \in models : m.name = name
    THEN models
    ELSE models \cup {[id |-> NextRowID(models), name |-> name]}

\* SELECT id FROM models WHERE name = :name
selectModel(name) ==
    LET hit == {m \in models : m.name = name}
    IN IF hit = {} THEN 0 ELSE (CHOOSE m \in hit : TRUE).id

\* saveUsage that keeps one row per (model, project) and adds to it
saveUsageUpsert(modelID, projectID, tokensUsage) ==
    IF ~ ((\E m \in models : m.id = modelID) /\ (\E p \in projects : p.id = projectID))
    THEN [err |-> TRUE, rows |-> usage]
    ELSE IF \E i \in 1..Len(usage) :
               usage[i].model_id = modelID /\ usage[i].project_id = projectID
    THEN [err |-> FALSE,
          rows |-> [i \in 1..Len(usage) |->
                      IF usage[i].model_id = modelID /\ usage[i].project_id = projectID
                      THEN [usage[i] EXCEPT !.tokens = @ + tokensUsage]
                      ELSE usage[i]]]
    ELSE [err |-> FALSE,
          rows |-> Append(usage, [model_id |-> modelID, project_id |-> projectID,
                                  tokens |-> tokensUsage])]

\* INSERT INTO usage (model_id, project_id, tokens), under foreign keys
saveUsage(modelID, projectID, tokensUsage) ==
    IF (\E m \in models : m.id = modelID) /\ (\E p \in projects : p.id = projectID)
    THEN [err |-> FALSE,
          rows |-> Append(usage, [model_id |-> modelID, project_id |-> projectID,
                                  tokens |-> tokensUsage])]
    ELSE [err |-> TRUE, rows |-> usage]

\* setUserKey as INSERT OR REPLACE: the row of the name is deleted and a
\* new one inserted
setUserKeyReplace(userName, apiKey) ==
    IF \E u \in users : u.name # userName /\ u.key = apiKey
    THEN [err |-> TRUE, rows |-> users]
    ELSE [err |-> FALSE,
          rows |-> {u \in users : u.name # userName} \cup
                   {[id |-> NextRowID(users), name |-> userName, key |-> apiKey]}]

\* setUserKey on a table whose key column is not UNIQUE
setUserKeyNoKeyUnique(userName, apiKey) ==
    IF \E u \in users : u.name = userName
    THEN [err |-> FALSE,
          rows |-> {IF u.name = userName THEN [u EXCEPT !.key = apiKey] ELSE u
                    : u \in users}]
    ELSE [err |-> FALSE,
          rows |-> users \cup
                   {[id |-> NextRowID(users), name |-> userName, key |-> apiKey]}]

\* INSERT INTO users (name, key) ... ON CONFLICT (name) DO UPDATE SET key
setUserKey(userName, apiKey) ==
    IF \E u \in users : u.name # userName /\ u.key = apiKey
    THEN [err |-> TRUE, rows |-> users]
    ELSE IF \E u \in users : u.name = userName
    THEN [err |-> FALSE,
          rows |-> {IF u.name = userName THEN [u EXCEPT !.key = apiKey] ELSE u
                    : u \in users}]
    ELSE [err |-> FALSE,
          rows |-> users \cup
                   {[id |-> NextRowID(users), name |-> userName, key |-> apiKey]}]

\* deleteUser with foreign keys off
deleteUserNoFK(userName) ==
    [err |-> FALSE, rows |-> {u \in users : u.name # userName}]

\* DELETE FROM users WHERE name = :userName, under foreign keys
deleteUser(userName) ==
    IF \E u \in users : u.name = userName /\ \E p \in projects : p.user_id = u.id
    THEN [err |-> TRUE, rows |-> users]
    ELSE [err |-> FALSE, rows |-> {u \in users : u.name # userName}]

----------------------------------------------------------------------------
(* One call of proxyRequest *)

NewRequest == [method |-> "", query |-> "", header |-> EmptyHeader, body |-> NoBody]

NewLocals ==
    [conn |-> FALSE, userID |-> 0, userName |-> "", projectName |-> <<>>,
     projectID |-> 0, crb |-> ZeroCrb, modelID |-> 0,
     nTokens |-> 0, msg |-> <<>>, line |-> <<>>, totalTokens |-> 0,
     \* ctx.Done() is closed
     ctxDone |-> FALSE,
     \* what the call has done so far
     nStmt |-> 0, nEncode |-> 0, nDo |-> 0, nSaved |-> 0, errors |-> {}]

NoOutReq == [method |-> "", header |-> EmptyHeader, body |-> NoBody]

NewUpstream ==
    [outReq |-> NoOutReq, status |-> 0, header |-> EmptyHeader,
     lines |-> <<>>, body |-> <<>>,
     \* the upstream has stopped answering
     stalled |-> FALSE]

\* the call goes on to `next`
Goto(c, next, lc, rw) ==
    /\ pc' = [pc EXCEPT ![c] = next]
    /\ loc' = [loc EXCEPT ![c] = lc]
    /\ w' = [w EXCEPT ![c] = rw]
    /\ pool' = pool

\* the handler returns: the deferred pool.Put(conn) runs, and the server
\* sends what the handler wrote
Return(c, lc, rw) ==
    /\ pc' = [pc EXCEPT ![c] = "Done"]
    /\ loc' = [loc EXCEPT ![c] = [lc EXCEPT !.conn = FALSE]]
    /\ w' = [w EXCEPT ![c] = [rw EXCEPT !.flushed = Len(rw.body)]]
    /\ pool' = IF lc.conn THEN pool + 1 ELSE pool

\* Fail with pool.Put called at the end of the handler instead of deferred:
\* an early return keeps the connection
FailNoPut(c, lc, what, text, code) ==
    /\ pc' = [pc EXCEPT ![c] = "Done"]
    /\ loc' = [loc EXCEPT ![c] = [lc EXCEPT !.errors = @ \cup {what}, !.conn = FALSE]]
    /\ w' = [w EXCEPT ![c] = [HttpError(w[c], text, code)
                                EXCEPT !.flushed = Len(HttpError(w[c], text, code).body)]]
    /\ pool' = pool

\* logError, then http.Error, then return
Fail(c, lc, what, text, code) ==
    Return(c, [lc EXCEPT !.errors = @ \cup {what}], HttpError(w[c], text, code))

\* MethodCheck without the check of the query string
MethodCheckNoQuery(c, E) ==
    /\ alive /\ pc[c] = "MethodCheck"
    /\ \E m \in E.methods, q \in E.queries :
         /\ req' = [req EXCEPT ![c].method = m, ![c].query = q]
         /\ IF m # "POST"
            THEN Fail(c, loc[c], "method", "Only POST requests are supported", 400)
            ELSE Goto(c, "GetDB", loc[c], w[c])
    /\ UNCHANGED <<tables, alive, admin, up>>

\* CtxDone for a context made from the request's: done when the client leaves
CtxDoneWithRequest(c) == loc[c].ctxDone \/ Gone(w[c])

\* proxy.go 199-202: the context of the call is made from
\* context.Background() with a timeout, not from the request's: only the
\* deadline closes it
CtxDone(c) == loc[c].ctxDone

\* a statement on the call's connection: the connection is interrupted by
\* ctx.Done() (pool.Get(ctx)), so a statement may fail once the deadline
\* has passed
StmtFailures(c, E) == E.failures \cup (IF CtxDone(c) THEN {TRUE} ELSE {})

\* io.ReadAll(r.Body): the read may fail once the client has left
BodyFailures(c, E) == E.failures \cup (IF Gone(w[c]) THEN {TRUE} ELSE {})

\* what client.Do returns: an error, or a response
DoError == [err |-> TRUE, status |-> 0, header |-> EmptyHeader]
DoResponse(status, header) == [err |-> FALSE, status |-> status, header |-> header]

\* client.Do(req) under ctx: an error when the context is done; it blocks
\* while the upstream does not answer
DoResults(c, E) ==
    IF CtxDone(c) \/ up[c].stalled THEN {DoError} ELSE E.doResults

\* a read of resp.Body under ctx: it blocks while the upstream sends
\* nothing, and fails when the context is done
ReadFailures(c, E) ==
    IF up[c].stalled THEN {TRUE}
    ELSE E.failures \cup (IF CtxDone(c) THEN {TRUE} ELSE {})

\* Unblocked for an outbound request made without the call's context
UnblockedWithoutCtx(c) == ~up[c].stalled

\* proxy.go 262: the outbound request carries ctx, so a call blocked on the
\* upstream goes on when its context is done
Unblocked(c) == ~up[c].stalled \/ CtxDone(c)

\* proxy.go 188-197
MethodCheck(c, E) ==
    /\ alive /\ pc[c] = "MethodCheck"
    /\ \E m \in E.methods, q \in E.queries :
         /\ req' = [req EXCEPT ![c].method = m, ![c].query = q]
         /\ IF m # "POST"
            THEN Fail(c, loc[c], "method", "Only POST requests are supported", 400)
            ELSE IF q # ""
            THEN Fail(c, loc[c], "query", "Query parameters are not supported", 400)
            ELSE Goto(c, "GetDB", loc[c], w[c])
    /\ UNCHANGED <<tables, alive, admin, up>>

\* GetDB under one lock for all calls: a connection is handed out only
\* while no call holds one
GetDBExclusive(c, E) ==
    /\ alive /\ pc[c] = "GetDB"
    /\ \E fail \in StmtFailures(c, E) :
         IF fail
         THEN /\ alive' = FALSE
              /\ UNCHANGED <<pc, loc, w, pool>>
         ELSE /\ pool > 0
              /\ \A d \in Calls : ~loc[d].conn
              /\ pc' = [pc EXCEPT ![c] = "AuthCheck"]
              /\ loc' = [loc EXCEPT ![c].conn = TRUE]
              /\ pool' = pool - 1
              /\ UNCHANGED <<alive, w>>
    /\ UNCHANGED <<tables, admin, req, up>>

\* proxy.go 201-205, db.go 59-66: pool.Get blocks while the pool is empty;
\* when it fails (the deadline passes, the database cannot be opened) the
\* process exits
GetDB(c, E) ==
    /\ alive /\ pc[c] = "GetDB"
    /\ \E fail \in StmtFailures(c, E) :
         IF fail
         THEN /\ alive' = FALSE
              /\ UNCHANGED <<pc, loc, w, pool>>
         ELSE /\ pool > 0
              /\ pc' = [pc EXCEPT ![c] = "AuthCheck"]
              /\ loc' = [loc EXCEPT ![c].conn = TRUE]
              /\ pool' = pool - 1
              /\ UNCHANGED <<alive, w>>
    /\ UNCHANGED <<tables, admin, req, up>>

\* proxy.go 207-218
AuthCheck(c, E) ==
    /\ alive /\ pc[c] = "AuthCheck"
    /\ \E a \in E.auths, fail \in StmtFailures(c, E) :
         LET hdr == IF a = <<>> THEN req[c].header
                    ELSE HeaderSet(req[c].header, "Authorization", a)
             reqKey == TrimPrefix(HeaderGet(hdr, "Authorization"), BEARER)
             r == findUserByKey(reqKey)
             lc == [loc[c] EXCEPT !.nStmt = @ + 1]
         IN /\ req' = [req EXCEPT ![c].header = hdr]
            /\ IF fail
               THEN Fail(c, lc, "storage", "Failed to find user", 500)
               ELSE IF ~r.userFound
               THEN Fail(c, lc, "nouser", "Invalid API key", 401)
               ELSE Goto(c, "ProjectInsert",
                         [lc EXCEPT !.userID = r.userID, !.userName = r.userName],
                         w[c])
    /\ UNCHANGED <<tables, alive, admin, up>>

\* proxy.go 220-230 with db.go 71-79: the insert of getProjectID
ProjectInsert(c, E) ==
    /\ alive /\ pc[c] = "ProjectInsert"
    /\ \E p \in E.projects, fail \in StmtFailures(c, E) :
         LET hdr == IF p = <<>> THEN req[c].header
                    ELSE HeaderSet(req[c].header, "X-Project", p)
             got == HeaderGet(hdr, "X-Project")
             projectName == IF got = <<>> THEN DefaultProject ELSE got
             r == insertProject(loc[c].userID, projectName)
             lc == [loc[c] EXCEPT !.nStmt = @ + 1, !.projectName = projectName]
         IN /\ req' = [req EXCEPT ![c].header = hdr]
            /\ IF fail \/ r.err
               THEN /\ Fail(c, lc, "storage", "failed to find project", 500)
                    /\ projects' = projects
               ELSE /\ Goto(c, "ProjectSelect", lc, w[c])
                    /\ projects' = r.rows
    /\ UNCHANGED <<users, models, usage, alive, admin, up>>

\* db.go 81-94: the select of getProjectID
ProjectSelect(c, E) ==
    /\ alive /\ pc[c] = "ProjectSelect"
    /\ \E fail \in StmtFailures(c, E) :
         LET lc == [loc[c] EXCEPT !.nStmt = @ + 1]
         IN IF fail
            THEN Fail(c, lc, "storage", "failed to find project", 500)
            ELSE Goto(c, "BodyDecode",
                      [lc EXCEPT !.projectID =
                                   selectProject(lc.userID, lc.projectName)],
                      w[c])
    /\ UNCHANGED <<tables, alive, admin, req, up>>

\* proxy.go 232-251
BodyDecode(c, E) ==
    /\ alive /\ pc[c] = "BodyDecode"
    /\ \E b \in E.bodies, fail \in BodyFailures(c, E) :
         LET d == UnmarshalRequest(b)
         IN IF fail
            THEN /\ Fail(c, loc[c], "readbody", "failed to read request body", 500)
                 /\ req' = req
            ELSE /\ req' = [req EXCEPT ![c].body = b]
                 /\ IF d.err
                    THEN Fail(c, loc[c], "parse", "failed to parse request body", 400)
                    ELSE IF ~ForModelOk(d.crb.Model)
                    THEN Fail(c, [loc[c] EXCEPT !.crb = d.crb], "model",
                              "failed to find model", 400)
                    ELSE Goto(c, "ModelInsert", [loc[c] EXCEPT !.crb = d.crb], w[c])
    /\ UNCHANGED <<tables, alive, admin, up>>

\* proxy.go 253-258 with db.go 100-105: the insert of getModelID
ModelInsert(c, E) ==
    /\ alive /\ pc[c] = "ModelInsert"
    /\ \E fail \in StmtFailures(c, E) :
         LET lc == [loc[c] EXCEPT !.nStmt = @ + 1]
         IN IF fail
            THEN /\ Fail(c, lc, "storage", "failed to get model", 500)
                 /\ models' = models
            ELSE /\ Goto(c, "ModelSelect", lc, w[c])
                 /\ models' = insertModel(lc.crb.Model)
    /\ UNCHANGED <<users, projects, usage, alive, admin, req, up>>

\* db.go 107-118: the select of getModelID
ModelSelect(c, E) ==
    /\ alive /\ pc[c] = "ModelSelect"
    /\ \E fail \in StmtFailures(c, E) :
         LET lc == [loc[c] EXCEPT !.nStmt = @ + 1]
         IN IF fail
            THEN Fail(c, lc, "storage", "failed to get model", 500)
            ELSE Goto(c, "Forward",
                      [lc EXCEPT !.modelID = selectModel(lc.crb.Model)], w[c])
    /\ UNCHANGED <<tables, alive, admin, req, up>>

\* os.Getenv("OPENAI_KEY")
UpstreamKey == "sk-upstream"

\* OutboundRequest that forwards the caller's headers as they came
OutboundRequestKeepAuth(r) ==
    [method |-> "POST", header |-> r.header, body |-> r.body]

\* proxy.go 262-264: the outbound request
OutboundRequest(r) ==
    [method |-> "POST",
     header |-> HeaderSet(r.header, "Authorization", <<BEARER, UpstreamKey>>),
     body |-> r.body]

\* RelayHead with the status sent before the headers are copied
RelayHeadStatusFirst(rw, header, status) ==
    LET h == WriteHeader(rw, status)
    IN [h EXCEPT !.header = CopyHeaders(@, header)]

\* proxy.go 276-283: the upstream's headers and status go to the client
RelayHead(rw, header, status) ==
    WriteHeader([rw EXCEPT !.header = CopyHeaders(@, header)], status)

\* RelayFor with the streaming flag looked at before the status
RelayForStreamFirst(status, stream) ==
    IF stream THEN "SSEStart"
    ELSE IF status # 200 THEN "CopyBody" ELSE "PlainRead"

\* proxy.go 285-298: which relay takes the response
RelayFor(status, stream) ==
    IF status # 200 THEN "CopyBody"
    ELSE IF stream THEN "SSEStart" ELSE "PlainRead"

\* proxy.go 262-298: client.Do, then the head of the response and the
\* choice of the relay
Forward(c, E) ==
    /\ alive /\ pc[c] = "Forward" /\ Unblocked(c)
    /\ \E r \in DoResults(c, E) :
         LET lc == [loc[c] EXCEPT !.nDo = @ + 1]
             out == OutboundRequest(req[c])
         IN IF r.err
            THEN /\ Fail(c, lc, "upstream", "Failed to read response from OpenAI", 502)
                 /\ up' = [up EXCEPT ![c].outReq = out]
            ELSE /\ up' = [up EXCEPT ![c].outReq = out, ![c].status = r.status,
                                     ![c].header = r.header]
                 /\ Goto(c, RelayFor(r.status, lc.crb.Stream), lc,
                         RelayHead(w[c], r.header, r.status))
    /\ UNCHANGED <<tables, alive, admin, req>>

RECURSIVE WriteAll(_, _)
WriteAll(rw, chunks) ==
    IF chunks = <<>> THEN rw ELSE WriteAll(Write(rw, Head(chunks)), Tail(chunks))

\* proxy.go 285-292: io.Copy(w, resp.Body) ends at the end of the body, at
\* a read error (after the chunks that arrived) or at a failed write (to a
\* client that has left); an error is logged
CopyBody(c, E) ==
    /\ alive /\ pc[c] = "CopyBody" /\ Unblocked(c)
    /\ \E b \in E.errorBodies, fail \in ReadFailures(c, E) :
       \E n \in {Len(b)} \cup (IF Gone(w[c]) THEN 1..Len(b) ELSE {}) :
         /\ up' = [up EXCEPT ![c].body = SubSeq(b, 1, n)]
         /\ Return(c, IF fail \/ n < Len(b) \/ (Gone(w[c]) /\ n > 0)
                      THEN [loc[c] EXCEPT !.errors = @ \cup {"copy"}]
                      ELSE loc[c],
                   WriteAll(w[c], SubSeq(b, 1, n)))
    /\ UNCHANGED <<tables, alive, admin, req>>

\* proxy.go 160-174
PlainRead(c, E) ==
    /\ alive /\ pc[c] = "PlainRead" /\ Unblocked(c)
    /\ \E b \in E.plainBodies, fail \in ReadFailures(c, E) :
         LET d == UnmarshalResponse(b)
         IN IF fail
            THEN /\ Fail(c, loc[c], "readresp", "failed to read response", 502)
                 /\ up' = up
            ELSE /\ up' = [up EXCEPT ![c].body = <<b>>]
                 /\ IF d.err
                    THEN Fail(c, loc[c], "parseresp", "failed to parse response", 502)
                    ELSE Goto(c, "PlainSave",
                              [loc[c] EXCEPT !.totalTokens = d.TotalTokens], w[c])
    /\ UNCHANGED <<tables, alive, admin, req>>

\* the call's saveUsage (db.go 123-137); a failure is logged only
SaveUsage(c, fail, tokens) ==
    LET r == saveUsage(loc[c].modelID, loc[c].projectID, tokens)
        bad == fail \/ r.err
    IN [usage |-> IF bad THEN usage ELSE r.rows,
        loc |-> [loc[c] EXCEPT !.nStmt = @ + 1,
                               !.nSaved = IF bad THEN @ ELSE @ + 1,
                               !.errors = IF bad THEN @ \cup {"save"} ELSE @]]

\* PlainSave that answers a failed saveUsage with an error and returns
PlainSaveSurfacing(c, E) ==
    /\ alive /\ pc[c] = "PlainSave"
    /\ \E fail \in StmtFailures(c, E) :
         LET s == SaveUsage(c, fail, loc[c].totalTokens)
         IN /\ usage' = s.usage
            /\ IF "save" \in s.loc.errors
               THEN Return(c, s.loc, HttpError(w[c], "failed to save usage", 500))
               ELSE Goto(c, "PlainWrite", s.loc, w[c])
    /\ UNCHANGED <<users, projects, models, alive, admin, req, up>>

\* proxy.go 176-178
PlainSave(c, E) ==
    /\ alive /\ pc[c] = "PlainSave"
    /\ \E fail \in StmtFailures(c, E) :
         LET s == SaveUsage(c, fail, loc[c].totalTokens)
         IN /\ usage' = s.usage
            /\ Goto(c, "PlainWrite", s.loc, w[c])
    /\ UNCHANGED <<users, projects, models, alive, admin, req, up>>

\* PlainBody written from the decoded response instead of the buffer
PlainBodyReencoded(c) == MarshalResponse(loc[c].totalTokens)

\* proxy.go 180-184: the buffered bytes go to the client
PlainBody(c) == up[c].body[1]

PlainWrite(c) ==
    /\ alive /\ pc[c] = "PlainWrite"
    /\ Return(c, IF Gone(w[c]) THEN [loc[c] EXCEPT !.errors = @ \cup {"write"}]
                 ELSE loc[c],
              Write(w[c], PlainBody(c)))
    /\ UNCHANGED <<tables, alive, admin, req, up>>

\* proxy.go 82-86
SSEHead(rw) ==
    LET h == HeaderSet(HeaderSet(HeaderSet(rw.header,
                 "Content-Type", <<"text/event-stream">>),
                 "Cache-Control", <<"no-cache">>),
                 "Connection", <<"keep-alive">>)
    IN Flush(WriteHeader([rw EXCEPT !.header = h], 200))

Contents(messages) == [i \in 1..Len(messages) |-> messages[i].Content]

\* proxy.go 88-97: nTokens after the prompt loop
PromptTokens(messages) == SumTokens(Contents(messages))

\* proxy.go 75-99 (net/http's writer is an http.Flusher)
SSEStart(c, E) ==
    /\ alive /\ pc[c] = "SSEStart"
    /\ \E failAt \in {0} \cup (IF TRUE \in E.failures
                               THEN 1..Len(loc[c].crb.Messages) ELSE {}) :
         LET n == Len(loc[c].crb.Messages)
         IN IF failAt > 0
            THEN Return(c, [loc[c] EXCEPT !.nEncode = @ + failAt,
                                          !.errors = @ \cup {"tokenize"}],
                        HttpError(SSEHead(w[c]), "failed to tokenize prompt", 502))
            ELSE Goto(c, "SSERead",
                      [loc[c] EXCEPT !.nEncode = @ + n,
                                     !.nTokens = PromptTokens(loc[c].crb.Messages),
                                     !.msg = <<>>],
                      SSEHead(w[c]))
    /\ UNCHANGED <<tables, alive, admin, req, up>>

\* the lines of the block the upstream is emitting
RECURSIVE OpenBlock(_)
OpenBlock(lines) ==
    IF lines = <<>> \/ lines[Len(lines)] = BlankLine THEN <<>>
    ELSE Append(OpenBlock(SubSeq(lines, 1, Len(lines) - 1)), lines[Len(lines)])

\* proxy.go 106-111: the next line of the upstream body, or a read error
\* (the end of the body is one)
SSERead(c, E) ==
    /\ alive /\ pc[c] = "SSERead" /\ Unblocked(c)
    /\ \/ /\ ~up[c].stalled
          /\ Len(up[c].lines) < E.maxLines
          /\ \E l \in E.lines :
               /\ Len(OpenBlock(up[c].lines)) < MaxBlockLines - 1 \/ l = BlankLine
               /\ up' = [up EXCEPT ![c].lines = Append(@, l)]
               /\ Goto(c, "SSEWrite", [loc[c] EXCEPT !.line = l], w[c])
       \/ /\ Fail(c, loc[c], "readstream", "failed to read response", 502)
          /\ up' = up
    /\ UNCHANGED <<tables, alive, admin, req>>

\* SSERelayLine without the flush
SSERelayLineNoFlush(rw, line) == Write(rw, line)

\* proxy.go 112-113
SSERelayLine(rw, line) == Flush(Write(rw, line))

\* proxy.go 112-123
SSEWrite(c) ==
    /\ alive /\ pc[c] = "SSEWrite"
    /\ LET line == loc[c].line
           rw == SSERelayLine(w[c], line)
       IN IF line = BlankLine
          THEN Goto(c, "SSEMsg", loc[c], rw)
          ELSE IF HasPrefix(line, DATA)
          THEN Goto(c, "SSERead",
                    [loc[c] EXCEPT !.msg = @ \o TrimSpace(Tail(line))], rw)
          ELSE Goto(c, "SSERead", loc[c], rw)
    /\ UNCHANGED <<tables, alive, admin, req, up>>

\* AddTokens assigning where the code adds
AddTokensLast(nTokens, content) == TokenCount(content)

\* proxy.go 143-149: the running total after a delta
AddTokens(nTokens, content) == nTokens + TokenCount(content)

\* ChoicesOk that takes the first of several choices
ChoicesOkAtLeastOne(choices) == Len(choices) >= 1

\* proxy.go 137: exactly one choice
ChoicesOk(choices) == Len(choices) = 1

\* proxy.go 125-150
SSEMsg(c, E) ==
    /\ alive /\ pc[c] = "SSEMsg"
    /\ LET msg == loc[c].msg
           d == UnmarshalStreamed(msg)
       IN IF msg = <<DONE>>
          THEN Goto(c, "SSESave", loc[c], w[c])
          ELSE IF d.err
          THEN Fail(c, loc[c], "parsestream", "failed to unmarshal response", 502)
          ELSE IF ~ChoicesOk(d.Choices)
          THEN Fail(c, loc[c], "choices", "0 or more than 1 choices in response", 502)
          ELSE \E fail \in E.failures :
                 LET lc == [loc[c] EXCEPT !.nEncode = @ + 1]
                 IN IF fail
                    THEN Fail(c, lc, "tokenize", "failed to tokenize message", 502)
                    ELSE Goto(c, "SSERead",
                              [lc EXCEPT !.nTokens = AddTokens(@, d.Choices[1]),
                                         !.msg = <<>>],
                              w[c])
    /\ UNCHANGED <<tables, alive, admin, req, up>>

\* proxy.go 152-157
SSESave(c, E) ==
    /\ alive /\ pc[c] = "SSESave"
    /\ \E fail \in StmtFailures(c, E) :
         LET s == SaveUsage(c, fail, loc[c].nTokens)
         IN /\ usage' = s.usage
            /\ Return(c, s.loc, w[c])
    /\ UNCHANGED <<users, projects, models, alive, admin, req, up>>

\* one step of one call
CallStep(c, E) ==
    \/ MethodCheck(c, E)
    \/ GetDB(c, E)
    \/ AuthCheck(c, E)
    \/ ProjectInsert(c, E)
    \/ ProjectSelect(c, E)
    \/ BodyDecode(c, E)
    \/ ModelInsert(c, E)
    \/ ModelSelect(c, E)
    \/ Forward(c, E)
    \/ CopyBody(c, E)
    \/ PlainRead(c, E)
    \/ PlainSave(c, E)
    \/ PlainWrite(c)
    \/ SSEStart(c, E)
    \/ SSERead(c, E)
    \/ SSEWrite(c)
    \/ SSEMsg(c, E)
    \/ SSESave(c, E)

\* proxy.go 201: the timer of context.WithTimeout fires; the deferred
\* cancel stops it when the call returns
Deadline(c) ==
    /\ alive /\ pc[c] \notin {"MethodCheck", "Done"} /\ ~loc[c].ctxDone
    /\ loc' = [loc EXCEPT ![c].ctxDone = TRUE]
    /\ UNCHANGED <<tables, pool, alive, admin, pc, req, up, w>>

\* the upstream stops answering while the call waits for it: client.Do
\* (proxy.go 265) or a read of resp.Body (106, 160, 286) blocks
UpstreamStall(c) ==
    /\ alive /\ pc[c] \in {"Forward", "CopyBody", "PlainRead", "SSERead"}
    /\ ~up[c].stalled
    /\ up' = [up EXCEPT ![c].stalled = TRUE]
    /\ UNCHANGED <<tables, pool, alive, admin, pc, req, loc, w>>

\* the inbound client closes its connection; the handler is not told
\* (proxy.go 199-201 does not use r.Context())
ClientDisconnect(c) ==
    /\ alive /\ pc[c] \notin {"MethodCheck", "Done"} /\ ~Gone(w[c])
    /\ w' = [w EXCEPT ![c].goneAt = pc[c], ![c].got = Len(w[c].body)]
    /\ UNCHANGED <<tables, pool, alive, admin, pc, req, loc, up>>

----------------------------------------------------------------------------
(* One call of the prompt-style proxyRequest: it differs from the chat one *)
(* in the decoding of the request and in the choice of the relay           *)

\* json.Unmarshal(requestBody, &crb) into {Model, Prompt, Suffix, Stream}:
\* Prompt and Suffix are decoded and never read, messages are not decoded
UnmarshalPromptRequest(body) ==
    [err |-> ~body.wellFormed,
     crb |-> IF body.wellFormed
             THEN [Model |-> body.Model, Messages |-> <<>>, Stream |-> body.Stream]
             ELSE ZeroCrb]

\* PromptBodyDecode without the check of crb.Stream
PromptBodyDecodeNoStreamCheck(c, E) ==
    /\ alive /\ pc[c] = "BodyDecode"
    /\ \E b \in E.bodies, fail \in BodyFailures(c, E) :
         LET d == UnmarshalPromptRequest(b)
         IN IF fail
            THEN /\ Fail(c, loc[c], "readbody", "failed to read request body", 500)
                 /\ req' = req
            ELSE /\ req' = [req EXCEPT ![c].body = b]
                 /\ IF d.err
                    THEN Fail(c, loc[c], "parse", "failed to parse request body", 400)
                    ELSE IF ~ForModelOk(d.crb.Model)
                    THEN Fail(c, [loc[c] EXCEPT !.crb = d.crb], "model",
                              "failed to find model", 400)
                    ELSE Goto(c, "ModelInsert", [loc[c] EXCEPT !.crb = d.crb], w[c])
    /\ UNCHANGED <<tables, alive, admin, up>>

\* proxy.go (prompt) 410-435
PromptBodyDecode(c, E) ==
    /\ alive /\ pc[c] = "BodyDecode"
    /\ \E b \in E.bodies, fail \in BodyFailures(c, E) :
         LET d == UnmarshalPromptRequest(b)
         IN IF fail
            THEN /\ Fail(c, loc[c], "readbody", "failed to read request body", 500)
                 /\ req' = req
            ELSE /\ req' = [req EXCEPT ![c].body = b]
                 /\ IF d.err
                    THEN Fail(c, loc[c], "parse", "failed to parse request body", 400)
                    ELSE IF d.crb.Stream
                    THEN Fail(c, [loc[c] EXCEPT !.crb = d.crb], "stream",
                              "streaming responses are not yet supported", 400)
                    ELSE IF ~ForModelOk(d.crb.Model)
                    THEN Fail(c, [loc[c] EXCEPT !.crb = d.crb], "model",
                              "failed to find model", 400)
                    ELSE Goto(c, "ModelInsert", [loc[c] EXCEPT !.crb = d.crb], w[c])
    /\ UNCHANGED <<tables, alive, admin, up>>

\* proxy.go (prompt) 469-503: which relay takes the response
PromptRelayFor(status) == IF status = 200 THEN "PlainRead" ELSE "CopyBody"

\* proxy.go (prompt) 446-469: client.Do, then the head of the response
PromptForward(c, E) ==
    /\ alive /\ pc[c] = "Forward" /\ Unblocked(c)
    /\ \E r \in DoResults(c, E) :
         LET lc == [loc[c] EXCEPT !.nDo = @ + 1]
             out == OutboundRequest(req[c])
         IN IF r.err
            THEN /\ Fail(c, lc, "upstream", "Failed to read response from OpenAI", 502)
                 /\ up' = [up EXCEPT ![c].outReq = out]
            ELSE /\ up' = [up EXCEPT ![c].outReq = out, ![c].status = r.status,
                                     ![c].header = r.header]
                 /\ Goto(c, PromptRelayFor(r.status), lc,
                         RelayHead(w[c], r.header, r.status))
    /\ UNCHANGED <<tables, alive, admin, req>>

\* proxy.go (prompt) 364-503; the steps it shares with the chat handler
\* are the same statements
PromptCallStep(c, E) ==
    \/ MethodCheck(c, E)
    \/ GetDB(c, E)
    \/ AuthCheck(c, E)
    \/ ProjectInsert(c, E)
    \/ ProjectSelect(c, E)
    \/ PromptBodyDecode(c, E)
    \/ ModelInsert(c, E)
    \/ ModelSelect(c, E)
    \/ PromptForward(c, E)
    \/ CopyBody(c, E)
    \/ PlainRead(c, E)
    \/ PlainSave(c, E)
    \/ PlainWrite(c)

----------------------------------------------------------------------------
(* The administrative commands (main.go), each its own process *)

UserNames == {"alice", "bob"}
UserKeys == {<<"k1">>, <<"k2">>}

\* ORDER BY name
NameOrder == <<"alice", "bob">>

\* SELECT name, key FROM users ORDER BY name
listUsers ==
    LET row(n) == IF \E u \in users : u.name = n
                  THEN <<[name |-> n, key |-> (CHOOSE u \in users : u.name = n).key]>>
                  ELSE <<>>
    IN row(NameOrder[1]) \o row(NameOrder[2])

RECURSIVE SumUsage(_, _)
SumUsage(rows, projectID) ==
    IF rows = <<>> THEN 0
    ELSE (IF Head(rows).project_id = projectID THEN Head(rows).tokens ELSE 0)
         + SumUsage(Tail(rows), projectID)

\* SELECT ... SUM(usage.tokens) FROM usage JOIN projects JOIN users
\* GROUP BY month, user_id, project_id (one month)
getUsage ==
    {[userName |-> u.name, projectName |-> p.name, tokens |-> SumUsage(usage, p.id)] :
        <<u, p>> \in {<<u, p>> \in users \X projects :
                        /\ p.user_id = u.id
                        /\ \E i \in 1..Len(usage) : usage[i].project_id = p.id}}

\* one run of a command that writes: its statement, then its message
AdminRun(cmd, result) ==
    /\ nAdmin < MaxAdminOps
    /\ nAdmin' = nAdmin + 1
    /\ adminOut' = <<cmd, result>>

\* main.go 85-102
SetUserKeyCmd(name, key) ==
    LET r == setUserKey(name, key)
    IN /\ AdminRun("set-user-key", IF r.err THEN "failed" ELSE "created/updated")
       /\ users' = r.rows
       /\ UNCHANGED <<projects, models, usage, pool, alive, pc, req, loc, up, w>>

\* main.go 104-126
DeleteUserCmd(name) ==
    LET r == deleteUser(name)
    IN /\ AdminRun("delete-user", IF r.err THEN "failed"
                                  ELSE IF r.rows # users THEN "deleted"
                                  ELSE "not found")
       /\ users' = r.rows
       /\ UNCHANGED <<projects, models, usage, pool, alive, pc, req, loc, up, w>>

\* main.go 63-83: the rows of listUsers are printed; nothing is written
ListUsersCmd ==
    /\ listUsers \in Seq([name : UserNames, key : UserKeys])
    /\ UNCHANGED vars

\* main.go 130-155: the rows of getUsage are printed; nothing is written
GetUsageCmd ==
    /\ \A r \in getUsage : r.tokens >= 0
    /\ UNCHANGED vars

----------------------------------------------------------------------------
(* What reaches the proxy from outside *)

Msg(content) == [Content |-> content]
Hi == <<"hi">>
HelloWorld == <<"hello", " world">>

UpHeaderJSON == [k \in {"Content-Type"} |-> << <<"application/json">> >>]
UpHeaderSSE ==
    [k \in {"Content-Type", "X-Request-Id"} |->
        IF k = "Content-Type" THEN << <<"text/event-stream">> >> ELSE << <<"r1">> >>]

\* the relay specification: one call, every shape of upstream response
RelayEnv ==
    [methods |-> {"POST", "GET"},
     queries |-> {"", "stream=1"},
     auths |-> {<<BEARER, "k1">>, <<"k1">>, <<BEARER, "k9">>, <<>>},
     projects |-> {<<>>, <<"p1">>},
     bodies |-> {MalformedBody,
                 MkBody("bogus", <<Msg(Hi)>>, FALSE, ""),
                 MkBody("gpt-4", <<Msg(Hi)>>, FALSE, "temperature"),
                 MkBody("gpt-4", <<>>, TRUE, ""),
                 MkBody("gpt-4", <<Msg(Hi), Msg(HelloWorld)>>, TRUE, "")},
     failures |-> {FALSE, TRUE},
     doResults |-> {DoError} \cup
                   {DoResponse(s, h) : s \in {200, 429}, h \in {UpHeaderJSON, UpHeaderSSE}},
     errorBodies |-> {<<>>, <<BodyRateLimit>>, <<BodyNotJSON, BodyTokens7>>},
     plainBodies |-> {BodyTokens7, BodyTokens7Spaced, BodyTokens12, BodyNoUsage,
                      BodyNotJSON, BodyWrongType, BodyEmpty},
     lines |-> {DataLine(PayloadHi), DataLine(PayloadHelloWorld), DataLine(DONE),
                BlankLine, DataLine(PayloadNoChoice), DataLine(PayloadTwoChoices),
                DataLine(PayloadGarbage), CommentLine},
     maxLines |-> MaxLines]

\* the system specification: concurrent calls and administrative commands
SysEnv ==
    [methods |-> {"POST", "GET"},
     queries |-> {"", "stream=1"},
     auths |-> {<<BEARER, "k1">>, <<BEARER, "k2">>},
     projects |-> {<<>>, <<"p1">>},
     bodies |-> {MalformedBody,
                 MkBody("gpt-4", <<Msg(Hi)>>, FALSE, ""),
                 MkBody("gpt-4", <<Msg(Hi)>>, TRUE, "")},
     failures |-> {FALSE},
     doResults |-> {DoError, DoResponse(200, UpHeaderJSON), DoResponse(429, UpHeaderJSON)},
     errorBodies |-> {<<BodyRateLimit>>},
     plainBodies |-> {BodyTokens7, BodyNotJSON},
     lines |-> {DataLine(DONE), BlankLine},
     maxLines |-> MaxSysLines]

\* the second call of the system specification: a well-formed request of
\* either user, answered 200
PeerEnv ==
    [methods |-> {"POST"},
     queries |-> {""},
     auths |-> {<<BEARER, "k1">>, <<BEARER, "k2">>},
     projects |-> {<<>>, <<"p1">>},
     bodies |-> {MkBody("gpt-4", <<Msg(Hi)>>, FALSE, "")},
     failures |-> {FALSE},
     doResults |-> {DoResponse(200, UpHeaderJSON)},
     errorBodies |-> {<<BodyRateLimit>>},
     plainBodies |-> {BodyTokens7},
     lines |-> {DataLine(DONE), BlankLine},
     maxLines |-> MaxSysLines]

EnvOf(c) == IF c = "c1" THEN SysEnv ELSE PeerEnv

InitCalls ==
    /\ pool = PoolSize
    /\ alive = TRUE
    /\ nAdmin = 0
    /\ adminOut = <<>>
    /\ pc = [c \in Calls |-> "MethodCheck"]
    /\ req = [c \in Calls |-> NewRequest]
    /\ loc = [c \in Calls |-> NewLocals]
    /\ up = [c \in Calls |-> NewUpstream]
    /\ w = [c \in Calls |-> NewWriter]

\* the database after the migration: every table empty
Init ==
    /\ users = {}
    /\ projects = {}
    /\ models = {}
    /\ usage = <<>>
    /\ InitCalls

Next ==
    \/ \E c \in Calls : CallStep(c, EnvOf(c))
    \/ \E name \in UserNames, key \in UserKeys : SetUserKeyCmd(name, key)
    \/ \E name \in UserNames : DeleteUserCmd(name)
    \/ ListUsersCmd
    \/ GetUsageCmd

Spec == Init /\ [][Next]_vars

\* a second call that asks for the other supported model
OtherModelEnv ==
    [methods |-> {"POST"},
     queries |-> {""},
     auths |-> {<<BEARER, "k1">>, <<BEARER, "k2">>},
     projects |-> {<<>>, <<"p1">>},
     bodies |-> {MkBody("gpt-3.5-turbo", <<Msg(Hi)>>, FALSE, "")},
     failures |-> {FALSE},
     doResults |-> {DoResponse(200, UpHeaderJSON)},
     errorBodies |-> {<<BodyRateLimit>>},
     plainBodies |-> {BodyTokens12},
     lines |-> {DataLine(DONE), BlankLine},
     maxLines |-> MaxSysLines]

EnvOfServing(c) == IF c = "c1" THEN SysEnv ELSE OtherModelEnv

\* the database of a deployment that has a user: `set-user-key alice k1`
\* was run before the server started
InitServing ==
    /\ users = {[id |-> 1, name |-> "alice", key |-> <<"k1">>]}
    /\ projects = {}
    /\ models = {}
    /\ usage = <<>>
    /\ InitCalls

NextServing ==
    \/ \E c \in Calls : CallStep(c, EnvOfServing(c))
    \/ \E name \in UserNames, key \in UserKeys : SetUserKeyCmd(name, key)
    \/ \E name \in UserNames : DeleteUserCmd(name)
    \/ ListUsersCmd
    \/ GetUsageCmd

SpecServing == InitServing /\ [][NextServing]_vars

\* the database after `set-user-key alice k1`
InitRelay ==
    /\ users = {[id |-> 1, name |-> "alice", key |-> <<"k1">>]}
    /\ projects = {}
    /\ models = {}
    /\ usage = <<>>
    /\ InitCalls

RelayCall == "c1"

NextRelay == CallStep(RelayCall, RelayEnv)

SpecRelay == InitRelay /\ [][NextRelay]_vars

\* the deadline specification: one call of a known user, an upstream that
\* may stop answering, a client that may leave, and the call's timer
DeadlineEnv ==
    [methods |-> {"POST"},
     queries |-> {""},
     auths |-> {<<BEARER, "k1">>},
     projects |-> {<<>>},
     bodies |-> {MkBody("gpt-4", <<Msg(Hi)>>, FALSE, ""),
                 MkBody("gpt-4", <<Msg(Hi)>>, TRUE, "")},
     failures |-> {FALSE},
     doResults |-> {DoError, DoResponse(200, UpHeaderJSON),
                    DoResponse(429, UpHeaderJSON)},
     errorBodies |-> {<<BodyRateLimit>>, <<BodyNotJSON, BodyTokens7>>},
     plainBodies |-> {BodyTokens7, BodyNotJSON},
     lines |-> {DataLine(PayloadHi), BlankLine, DataLine(DONE)},
     maxLines |-> MaxLiveLines]

NextDeadline ==
    \/ CallStep(RelayCall, DeadlineEnv)
    \/ Deadline(RelayCall)
    \/ UpstreamStall(RelayCall)
    \/ ClientDisconnect(RelayCall)

\* the handler's goroutine keeps running, and the timer of the context
\* fires when its time has come
SpecDeadline ==
    /\ InitRelay /\ [][NextDeadline]_vars
    /\ WF_vars(CallStep(RelayCall, DeadlineEnv))
    /\ WF_vars(Deadline(RelayCall))

\* a well-formed request of alice, answered 200
WaitingEnv ==
    [methods |-> {"POST"},
     queries |-> {""},
     auths |-> {<<BEARER, "k1">>},
     projects |-> {<<>>},
     bodies |-> {MkBody("gpt-4", <<Msg(Hi)>>, FALSE, "")},
     failures |-> {FALSE},
     doResults |-> {DoResponse(200, UpHeaderJSON)},
     errorBodies |-> {<<BodyRateLimit>>},
     plainBodies |-> {BodyTokens7},
     lines |-> {DataLine(DONE)},
     maxLines |-> MaxSysLines]

EnvOfBusy(c) == IF c = "c1" THEN DeadlineEnv ELSE WaitingEnv

\* the server with alice as a user, idle or with all connections of the
\* pool but one held by calls that wait for the upstream
InitBusy ==
    /\ users = {[id |-> 1, name |-> "alice", key |-> <<"k1">>]}
    /\ projects = {}
    /\ models = {}
    /\ usage = <<>>
    /\ alive = TRUE
    /\ nAdmin = 0
    /\ adminOut = <<>>
    /\ pool \in {1, PoolSize}
    /\ pc = [c \in Calls |-> "MethodCheck"]
    /\ req = [c \in Calls |-> NewRequest]
    /\ loc = [c \in Calls |-> NewLocals]
    /\ up = [c \in Calls |-> NewUpstream]
    /\ w = [c \in Calls |-> NewWriter]

NextBusy ==
    \/ \E c \in Calls : CallStep(c, EnvOfBusy(c))
    \/ \E c \in Calls : Deadline(c)
    \/ \E c \in Calls : UpstreamStall(c)

\* every handler's goroutine keeps running and every context's timer fires
SpecBusy ==
    /\ InitBusy /\ [][NextBusy]_vars
    /\ \A c \in Calls : WF_vars(CallStep(c, EnvOfBusy(c)))
    /\ \A c \in Calls : WF_vars(Deadline(c))

\* what a call of the prompt-style handler meets: the chat requests
\* (their messages are ignored), and a streamed one for an unknown model
PromptEnv ==
    [RelayEnv EXCEPT !.bodies = @ \cup {MkBody("bogus", <<>>, TRUE, ""),
                                        MkBody("gpt-4", <<>>, FALSE, "prompt")}]

NextPrompt == PromptCallStep(RelayCall, PromptEnv)

SpecPrompt == InitRelay /\ [][NextPrompt]_vars

----------------------------------------------------------------------------
(* What the properties below speak of *)

\* the credential of a call: its Authorization header without "Bearer "
Credential(c) ==
    LET a == HeaderGet(req[c].header, "Authorization")
    IN IF a # <<>> /\ a[1] = BEARER THEN Tail(a) ELSE a

\* the call is past its user lookup
LookedUp(c) == pc[c] \notin {"MethodCheck", "GetDB", "AuthCheck"} /\ loc[c].nStmt >= 1

\* the call received an upstream response
Answered(c) == up[c].status # 0

Streaming200(c) == up[c].status = 200 /\ req[c].body.Stream

IsPrefix(a, b) == Len(a) <= Len(b) /\ SubSeq(b, 1, Len(a)) = a

\* the blocks of a streamed body that a blank line has ended, each without
\* its blank line
RECURSIVE BlocksOf(_, _)
BlocksOf(lines, cur) ==
    IF lines = <<>> THEN <<>>
    ELSE IF Head(lines) = BlankLine
    THEN <<cur>> \o BlocksOf(Tail(lines), <<>>)
    ELSE BlocksOf(Tail(lines), Append(cur, Head(lines)))

ClosedBlocks(lines) == BlocksOf(lines, <<>>)

IsDataLine(l) == l[1] = DATA

\* the payloads of a block's data lines, in order
DataPayloads(block) ==
    LET ds == SelectSeq(block, IsDataLine)
    IN [i \in 1..Len(ds) |-> ds[i][3]]

\* a well-formed delta block: one data line, a JSON object with one choice
IsDeltaBlock(b) == DataPayloads(b) \in {<<PayloadHi>>, <<PayloadHelloWorld>>}
IsSentinelBlock(b) == DataPayloads(b) = <<DONE>>

\* tokens of a delta block's content: "Hi" is one, "Hello world" two
DeltaTokens(b) == IF DataPayloads(b) = <<PayloadHi>> THEN 1 ELSE 2

RECURSIVE SumDeltas(_)
SumDeltas(bs) == IF bs = <<>> THEN 0 ELSE DeltaTokens(Head(bs)) + SumDeltas(Tail(bs))

\* well-formed delta blocks, then the sentinel block, and nothing else
WellFormedStream(lines) ==
    LET bs == ClosedBlocks(lines)
    IN /\ lines # <<>> /\ lines[Len(lines)] = BlankLine
       /\ Len(bs) >= 1
       /\ IsSentinelBlock(bs[Len(bs)])
       /\ \A i \in 1..(Len(bs) - 1) : IsDeltaBlock(bs[i])

\* D: the tokens of the deltas of a well-formed stream
DeltaSum(lines) ==
    LET bs == ClosedBlocks(lines) IN SumDeltas(SubSeq(bs, 1, Len(bs) - 1))

\* P: the tokens of the request's prompt fragments
RECURSIVE SumPrompt(_)
SumPrompt(messages) ==
    IF messages = <<>> THEN 0
    ELSE Len(Head(messages).Content) + SumPrompt(Tail(messages))

\* the total-token field of a response body that carries one
TotalTokenField(bytes) ==
    CASE bytes = BodyTokens7 -> 7
      [] bytes = BodyTokens7Spaced -> 7
      [] bytes = BodyTokens12 -> 12
      [] OTHER -> -1

----------------------------------------------------------------------------
(* Properties *)

\* C1: a request whose method is not POST or whose query string is not
\* empty is answered 400 in the step that checks it, and that step takes no
\* connection, runs no statement and leaves every table as it was, whatever
\* the tables hold.
C1_RejectedBeforeStorage ==
    [][\A c \in Calls :
         (/\ pc[c] = "MethodCheck" /\ pc'[c] # "MethodCheck"
          /\ (req'[c].method # "POST" \/ req'[c].query # ""))
         => /\ pc'[c] = "Done"
            /\ Status(w'[c]) = 400
            /\ tables' = tables
            /\ pool' = pool
            /\ ~loc'[c].conn
            /\ loc'[c].nStmt = 0]_vars

\* a call with a query string was rejected while the tables held rows
C1_Witness ==
    \E c \in Calls :
        /\ pc[c] = "Done" /\ req[c].method = "POST" /\ req[c].query # ""
        /\ Status(w[c]) = 400 /\ loc[c].nStmt = 0
        /\ users # {} /\ projects # {}

\* C2: a call whose credential is no user's key, and whose lookup ran, ends
\* with 401; users, projects, models and usage are what they were before
\* the call, and no upstream call was made.
C2_UnknownCredential ==
    \A c \in Calls :
        (/\ LookedUp(c)
         /\ "storage" \notin loc[c].errors
         /\ Credential(c) \notin {u.key : u \in users})
        => /\ pc[c] = "Done"
           /\ Status(w[c]) = 401
           /\ users = {[id |-> 1, name |-> "alice", key |-> <<"k1">>]}
           /\ projects = {} /\ models = {} /\ usage = <<>>
           /\ loc[c].nDo = 0 /\ up[c].outReq = NoOutReq

\* a call with the unknown key k9 was answered 401
C2_Witness ==
    \E c \in Calls :
        /\ pc[c] = "Done" /\ Credential(c) = <<"k9">> /\ Status(w[c]) = 401

\* C3: after an upstream response whose status is not 200, streaming flag
\* set or not, the call makes no tokenization call and writes no usage
\* record, the client has the upstream's status, and when the call is done
\* the client's body is the upstream's body, chunk for chunk.
C3_NonOKPassThrough ==
    \A c \in Calls :
        (Answered(c) /\ up[c].status # 200)
        => /\ loc[c].nEncode = 0
           /\ loc[c].nSaved = 0 /\ usage = <<>>
           /\ w[c].statusLine = <<up[c].status>>
           /\ pc[c] \in {"CopyBody", "Done"}
           /\ (pc[c] = "Done" => w[c].body = up[c].body)

\* a streaming request got a 429 with a body of two chunks
C3_Witness ==
    \E c \in Calls :
        /\ pc[c] = "Done" /\ up[c].status = 429 /\ req[c].body.Stream
        /\ Len(up[c].body) = 2 /\ w[c].body = up[c].body

\* C4: a non-streaming call whose 200 response carries total-token field N,
\* and whose usage write did not fail, leaves exactly one usage record, of
\* N tokens under the call's model and project, and the client's body is
\* the upstream's bytes.
C4_PlainUsage ==
    \A c \in Calls :
        (/\ pc[c] = "Done" /\ up[c].status = 200 /\ ~req[c].body.Stream
         /\ Len(up[c].body) = 1 /\ TotalTokenField(up[c].body[1]) >= 0
         /\ "save" \notin loc[c].errors)
        => /\ usage = <<[model_id |-> loc[c].modelID,
                         project_id |-> loc[c].projectID,
                         tokens |-> TotalTokenField(up[c].body[1])]>>
           /\ loc[c].nSaved = 1
           /\ loc[c].modelID # 0 /\ loc[c].projectID # 0
           /\ w[c].body = up[c].body

\* the body with spaces and an extra field was relayed and counted as 7
C4_Witness ==
    \E c \in Calls :
        /\ pc[c] = "Done" /\ up[c].body = <<BodyTokens7Spaced>>
        /\ Len(usage) = 1 /\ usage[1].tokens = 7
        /\ w[c].body = <<BodyTokens7Spaced>>

\* C5: a streaming call whose 200 response is well-formed delta blocks and
\* then the sentinel block, with no tokenizer or storage failure, leaves
\* exactly one usage record, of P+D tokens; and a streaming call writes a
\* usage record only once the sentinel block has been read.
C5_StreamUsage ==
    \A c \in Calls :
        /\ (/\ pc[c] = "Done" /\ Streaming200(c)
            /\ WellFormedStream(up[c].lines)
            /\ loc[c].errors \cap {"save", "tokenize"} = {})
           => /\ usage = <<[model_id |-> loc[c].modelID,
                            project_id |-> loc[c].projectID,
                            tokens |-> SumPrompt(req[c].body.Messages)
                                       + DeltaSum(up[c].lines)]>>
              /\ loc[c].nSaved = 1
        /\ (Streaming200(c) /\ loc[c].nSaved > 0)
           => WellFormedStream(up[c].lines)

\* a prompt of 3 tokens, deltas of 1 and 2 tokens, the sentinel: 6 tokens
C5_Witness ==
    \E c \in Calls :
        /\ pc[c] = "Done" /\ Streaming200(c)
        /\ SumPrompt(req[c].body.Messages) = 3
        /\ up[c].lines = <<DataLine(PayloadHi), BlankLine,
                           DataLine(PayloadHelloWorld), BlankLine,
                           DataLine(DONE), BlankLine>>
        /\ Len(usage) = 1 /\ usage[1].tokens = 6

\* C6: while the streaming relay runs, the lines written to the client are
\* a prefix of the lines read, all of them flushed; at most one line read
\* is not yet written, and none when the relay reads the next line, decodes
\* a block or saves.  When the call is done the lines read are the front of
\* the client's body, followed at most by the text of one http.Error.
C6_LineByLine ==
    \A c \in Calls :
        /\ pc[c] \in {"SSERead", "SSEWrite", "SSEMsg", "SSESave"}
           => /\ IsPrefix(w[c].body, up[c].lines)
              /\ w[c].flushed = Len(w[c].body)
              /\ Len(up[c].lines) - Len(w[c].body) <= 1
              /\ (pc[c] # "SSEWrite" => w[c].body = up[c].lines)
        /\ (pc[c] = "Done" /\ Streaming200(c))
           => /\ IsPrefix(up[c].lines, w[c].body)
              /\ Len(w[c].body) <= Len(up[c].lines) + 1
              /\ w[c].flushed = Len(w[c].body)

\* three lines were read and relayed, a fourth is read and not yet written
C6_Witness ==
    \E c \in Calls :
        /\ pc[c] = "SSEWrite" /\ Len(up[c].lines) = 4
        /\ w[c].body = SubSeq(up[c].lines, 1, 3) /\ w[c].flushed = 3

\* C7: calls that got a project ID for the same (user, name) got the same
\* ID, that of the one row with that (user, name); the same for model IDs;
\* and no interleaving of the statements leaves two rows with one key.
ProjectResolved(c) ==
    pc[c] \in {"BodyDecode", "ModelInsert", "ModelSelect", "Forward", "CopyBody",
               "PlainRead", "PlainSave", "PlainWrite", "SSEStart", "SSERead",
               "SSEWrite", "SSEMsg", "SSESave"}
    \/ (pc[c] = "Done" /\ loc[c].nStmt >= 3
        /\ ~(loc[c].nStmt = 3 /\ "storage" \in loc[c].errors))

ModelResolved(c) ==
    pc[c] \in {"Forward", "CopyBody", "PlainRead", "PlainSave", "PlainWrite",
               "SSEStart", "SSERead", "SSEWrite", "SSEMsg", "SSESave"}
    \/ (pc[c] = "Done" /\ loc[c].nDo > 0)

C7_GetOrCreateRace ==
    /\ \A p, q \in projects : (p.user_id = q.user_id /\ p.name = q.name) => p = q
    /\ \A m, n \in models : m.name = n.name => m = n
    /\ \A c \in Calls :
         /\ ProjectResolved(c) =>
              \E p \in projects :
                  /\ p.id = loc[c].projectID
                  /\ p.user_id = loc[c].userID /\ p.name = loc[c].projectName
         /\ ModelResolved(c) =>
              \E m \in models :
                  m.id = loc[c].modelID /\ m.name = loc[c].crb.Model
    /\ \A c, d \in Calls :
         /\ (/\ ProjectResolved(c) /\ ProjectResolved(d)
             /\ loc[c].userID = loc[d].userID
             /\ loc[c].projectName = loc[d].projectName)
            => loc[c].projectID = loc[d].projectID
         /\ (/\ ModelResolved(c) /\ ModelResolved(d)
             /\ loc[c].crb.Model = loc[d].crb.Model)
            => loc[c].modelID = loc[d].modelID

\* two calls have both run the insert for one (user, name) before either
\* ran its select
C7_Witness ==
    \E c, d \in Calls :
        /\ c # d
        /\ pc[c] = "ProjectSelect" /\ pc[d] = "ProjectSelect"
        /\ loc[c].userID = loc[d].userID
        /\ loc[c].projectName = loc[d].projectName
        /\ Cardinality(projects) = 1

\* C8: once a call has an upstream response, the client has been sent the
\* upstream's status, once, with the upstream's headers, and nothing the
\* call does later (the streaming relay's own header calls, an http.Error)
\* sends another status line; no body chunk precedes it.
C8_HeadOnce ==
    \A c \in Calls :
        /\ Answered(c)
           => /\ w[c].statusLine = <<up[c].status>>
              /\ w[c].sent = up[c].header
        /\ (~Answered(c) /\ pc[c] # "Done") => w[c].body = <<>>

\* a streamed 200 whose relay failed: the status line is still the one 200
C8_Witness ==
    \E c \in Calls :
        /\ pc[c] = "Done" /\ Streaming200(c)
        /\ "parsestream" \in loc[c].errors
        /\ Len(w[c].body) > 2 /\ w[c].statusLine = <<200>>
        /\ "X-Request-Id" \in DOMAIN w[c].sent

\* C9 as claimed: a non-streaming 200 whose body cannot be read or parsed
\* ends with the gateway-failure status at the client, no usage record and
\* no upstream body chunk written.
C9_PlainParseFailure ==
    \A c \in Calls :
        (/\ pc[c] = "Done" /\ up[c].status = 200 /\ ~req[c].body.Stream
         /\ loc[c].errors \cap {"readresp", "parseresp"} # {})
        => /\ Status(w[c]) = 502
           /\ loc[c].nSaved = 0 /\ usage = <<>>
           /\ \A i \in 1..Len(w[c].body) : w[c].body[i] \notin {BodyNotJSON, BodyWrongType}

\* C10: in the streaming 200 path, once a block that is neither a
\* well-formed delta block nor the sentinel block has been read, or a read
\* of the stream has failed, no further line is read: the bad block is the
\* last thing read, the call ends when it has looked at it, no usage record
\* is written, and the client's status line stays the 200 already sent.
BadBlock(b) == ~IsDeltaBlock(b) /\ ~IsSentinelBlock(b)

C10_StreamAbort ==
    \A c \in Calls :
        Streaming200(c) =>
            LET bs == ClosedBlocks(up[c].lines)
            IN /\ (\E i \in 1..Len(bs) : BadBlock(bs[i]))
                  => /\ BadBlock(bs[Len(bs)])
                     /\ \A i \in 1..(Len(bs) - 1) : ~BadBlock(bs[i])
                     /\ up[c].lines[Len(up[c].lines)] = BlankLine
                     /\ pc[c] \in {"SSEWrite", "SSEMsg", "Done"}
                     /\ loc[c].nSaved = 0 /\ usage = <<>>
                     /\ w[c].statusLine = <<200>>
                     /\ (\/ IsPrefix(w[c].body, Append(up[c].lines,
                                    <<"failed to unmarshal response", NL>>))
                         \/ IsPrefix(w[c].body, Append(up[c].lines,
                                    <<"0 or more than 1 choices in response", NL>>)))
               /\ "readstream" \in loc[c].errors
                  => /\ pc[c] = "Done"
                     /\ loc[c].nSaved = 0 /\ usage = <<>>
                     /\ w[c].statusLine = <<200>>
                     /\ w[c].body = Append(up[c].lines,
                                           <<"failed to read response", NL>>)

\* a delta block was relayed, then a block with two choices ended the call
C10_Witness ==
    \E c \in Calls :
        /\ pc[c] = "Done" /\ Streaming200(c)
        /\ up[c].lines = <<DataLine(PayloadHi), BlankLine,
                           DataLine(PayloadTwoChoices), BlankLine>>
        /\ "choices" \in loc[c].errors
        /\ usage = <<>> /\ w[c].statusLine = <<200>>

\* C11: a client that leaves does not cancel the call.  When the call is
\* done, its deadline has not passed and the upstream's 200 response was
\* complete (a body with a total-token field, or well-formed blocks up to
\* the sentinel), the ledger holds the call's one usage record with the
\* same token count as for a client that stayed, the relay has gone through
\* every line, and nothing but the failed write of the plain body is logged.
C11_DisconnectStillCounted ==
    \A c \in Calls :
        (/\ pc[c] = "Done" /\ Gone(w[c]) /\ ~loc[c].ctxDone
         /\ up[c].status = 200)
        => /\ w[c].got <= Len(w[c].body)
           /\ (/\ ~req[c].body.Stream /\ Len(up[c].body) = 1
               /\ TotalTokenField(up[c].body[1]) >= 0)
              => /\ usage = <<[model_id |-> loc[c].modelID,
                               project_id |-> loc[c].projectID,
                               tokens |-> TotalTokenField(up[c].body[1])]>>
                 /\ w[c].body = up[c].body
                 /\ loc[c].errors \subseteq {"write"}
           /\ (req[c].body.Stream /\ WellFormedStream(up[c].lines))
              => /\ usage = <<[model_id |-> loc[c].modelID,
                               project_id |-> loc[c].projectID,
                               tokens |-> SumPrompt(req[c].body.Messages)
                                          + DeltaSum(up[c].lines)]>>
                 /\ w[c].body = up[c].lines
                 /\ loc[c].errors = {}

\* the client left after two lines of a stream of four; the record is there
C11_Witness ==
    \E c \in Calls :
        /\ pc[c] = "Done" /\ w[c].goneAt = "SSERead" /\ w[c].got = 2
        /\ ~loc[c].ctxDone
        /\ up[c].lines = <<DataLine(PayloadHi), BlankLine, DataLine(DONE), BlankLine>>
        /\ Len(usage) = 1 /\ usage[1].tokens = 2

\* C12: a call whose 200 relay went through (nothing failed, or only
\* saveUsage) has delivered the upstream's status, the upstream's headers
\* and the whole body, the same whether saveUsage failed or not; when it
\* failed the failure is the one thing logged and no usage record exists.
C12_SaveFailureHidden ==
    \A c \in Calls :
        (/\ pc[c] = "Done" /\ up[c].status = 200
         /\ loc[c].errors \subseteq {"save"})
        => /\ w[c].statusLine = <<200>>
           /\ w[c].sent = up[c].header
           /\ w[c].body = (IF req[c].body.Stream THEN up[c].lines ELSE up[c].body)
           /\ w[c].flushed = Len(w[c].body)
           /\ IF "save" \in loc[c].errors
              THEN loc[c].nSaved = 0 /\ usage = <<>>
              ELSE loc[c].nSaved = 1 /\ Len(usage) = 1

\* saveUsage failed after a plain body of 12 tokens was read; the client
\* has the body and the ledger is empty
C12_Witness ==
    \E c \in Calls :
        /\ pc[c] = "Done" /\ "save" \in loc[c].errors
        /\ up[c].body = <<BodyTokens12>> /\ w[c].body = <<BodyTokens12>>
        /\ w[c].statusLine = <<200>> /\ usage = <<>>

\* the orchestrator state of spec section 4.5 a place of proxyRequest belongs
\* to: Relay is reading the upstream body and writing to the client,
\* RecordUsage is the call of saveUsage
Stage(p) ==
    CASE p = "MethodCheck" -> 1
      [] p \in {"GetDB", "AuthCheck"} -> 2
      [] p \in {"ProjectInsert", "ProjectSelect"} -> 3
      [] p = "BodyDecode" -> 4
      [] p \in {"ModelInsert", "ModelSelect"} -> 5
      [] p = "Forward" -> 6
      [] p \in {"CopyBody", "PlainRead", "PlainWrite", "SSEStart", "SSERead",
                "SSEWrite", "SSEMsg"} -> 7
      [] p \in {"PlainSave", "SSESave"} -> 8
      [] p = "Done" -> 9

\* C13 as claimed: a call moves through MethodCheck, AuthCheck,
\* ProjectResolve, BodyDecode, ModelResolve, Forward, Relay, RecordUsage,
\* Done in that order and never back, a failing state goes straight to the
\* end, usage is recorded only once the relay to the client is over, and a
\* call issues at most one outbound request.
C13_StateOrder ==
    [][\A c \in Calls :
         /\ Stage(pc'[c]) >= Stage(pc[c])
         /\ (loc'[c].errors \ (loc[c].errors \cup {"save"}) # {} => pc'[c] = "Done")
         /\ (loc'[c].nSaved > loc[c].nSaved
               => w[c].body = (IF req[c].body.Stream THEN up[c].lines ELSE up[c].body))
         /\ loc'[c].nDo <= 1]_vars

\* C14 as claimed: every failing call is answered once, with the status of
\* its class (400 for method, query, malformed JSON and unsupported model,
\* 401 for an unknown credential, 500 for a storage failure, that of getting
\* a connection included, 502 for an upstream transport failure), and the
\* service keeps serving: no call is left without an answer by a failure.
C14_ErrorTaxonomy ==
    /\ alive
    /\ \A c \in Calls :
         pc[c] = "Done"
         => /\ Len(w[c].statusLine) = 1
            /\ (loc[c].errors \cap {"method", "query", "parse", "model"} # {}
                  => Status(w[c]) = 400)
            /\ ("nouser" \in loc[c].errors => Status(w[c]) = 401)
            /\ ("storage" \in loc[c].errors => Status(w[c]) = 500)
            /\ ("upstream" \in loc[c].errors => Status(w[c]) = 502)

C16_OutboundRequest ==
    \A c \in Calls :
        loc[c].nDo > 0
        => LET out == up[c].outReq
               inb == req[c]
           IN /\ out.method = "POST"
              /\ out.body = inb.body
              /\ DOMAIN out.header = DOMAIN inb.header \cup {"Authorization"}
              /\ \A k \in DOMAIN inb.header \ {"Authorization"} :
                    out.header[k] = inb.header[k]
              /\ out.header["Authorization"] = << <<BEARER, UpstreamKey>> >>
              /\ \A k \in DOMAIN out.header :
                    \A i \in 1..Len(out.header[k]) :
                        \A j \in 1..Len(out.header[k][i]) :
                            <<out.header[k][i][j]>> # Credential(c)
              /\ Credential(c) \in {u.key : u \in users}
              /\ loc[c].nDo = 1

\* a request with a project label and an extra body field went upstream
C16_Witness ==
    \E c \in Calls :
        /\ loc[c].nDo = 1
        /\ HeaderGet(req[c].header, "Authorization") = <<BEARER, "k1">>
        /\ "X-Project" \in DOMAIN up[c].outReq.header
        /\ up[c].outReq.header["X-Project"] = << <<"p1">> >>
        /\ up[c].outReq.body = MkBody("gpt-4", <<Msg(Hi)>>, FALSE, "temperature")

C18_LedgerAppendOnly ==
    [][/\ IsPrefix(usage, usage')
       /\ Len(usage') <= Len(usage) + 1]_vars

\* two records in the ledger, of one project, and a delete-user run last
C18_Witness ==
    /\ Len(usage) = 2
    /\ usage[1].project_id = usage[2].project_id
    /\ nAdmin = MaxAdminOps
    /\ adminOut[1] = "delete-user"

\* C19: in every state each usage record's model and project exist and each
\* project's user exists; a step never removes a project, a model or a
\* user who owns a project (the row keeps its id and name), and a command
\* that failed left every table as it was.
C19_ReferentialIntegrity ==
    /\ [](
           /\ \A i \in 1..Len(usage) :
               /\ \E m \in models : m.id = usage[i].model_id
               /\ \E p \in projects : p.id = usage[i].project_id
           /\ \A p \in projects : \E u \in users : u.id = p.user_id)
    /\ [][
           /\ \A u \in users :
               (\E p \in projects : p.user_id = u.id)
               => \E v \in users' : v.id = u.id /\ v.name = u.name
           /\ projects \subseteq projects'
           /\ models \subseteq models'
           /\ (nAdmin' # nAdmin /\ adminOut'[2] = "failed")
                => UNCHANGED tables]_vars

\* delete-user was refused while the user owns a project with usage
C19_Witness ==
    /\ adminOut = <<"delete-user", "failed">>
    /\ usage # <<>>
    /\ \E u \in users : \E p \in projects :
          p.user_id = u.id /\ \E i \in 1..Len(usage) : usage[i].project_id = p.id

\* C20: in every state no two users share a key, a name or an id; a
\* set-user-key that failed left the users as they were; a step of a proxy
\* call never changes the users.
C20_UniqueUsers ==
    /\ [](\A u, v \in users :
            (u.key = v.key \/ u.name = v.name \/ u.id = v.id) => u = v)
    /\ [][
           /\ (nAdmin' # nAdmin /\ adminOut' = <<"set-user-key", "failed">>)
                => users' = users
           /\ nAdmin' = nAdmin => users' = users]_vars

\* a set-user-key for a second name with the first user's key was refused
C20_Witness ==
    /\ adminOut = <<"set-user-key", "failed">>
    /\ Cardinality(users) = 1
    /\ \E c \in Calls : pc[c] = "Done" /\ loc[c].userID # 0

\* the step is a save of call c that wrote a record
Saved(c) == loc'[c].nSaved = loc[c].nSaved + 1

\* the row of table `rows` with this id (ids are unique)
RowOf(rows, id) == CHOOSE r \in rows : r.id = id

\* C21: the record a call writes references the project of the user the
\* call authenticated as and of its project label, and the model of its
\* model name, and no other call's.
C21_RecordAttribution ==
    [][\A c \in Calls :
          Saved(c)
          => LET rec == usage'[Len(usage')]
             IN /\ Len(usage') = Len(usage) + 1
                /\ rec.project_id = loc[c].projectID
                /\ rec.model_id = loc[c].modelID
                /\ RowOf(models, rec.model_id).name = loc[c].crb.Model
                /\ RowOf(projects, rec.project_id).user_id = loc[c].userID
                /\ RowOf(projects, rec.project_id).name = loc[c].projectName
                /\ RowOf(users, loc[c].userID).name = loc[c].userName
                /\ \A d \in Calls \ {c} :
                      /\ (ModelResolved(d) /\ loc[d].crb.Model # loc[c].crb.Model)
                           => rec.model_id # loc[d].modelID
                      /\ (ProjectResolved(d)
                          /\ (loc[d].userName # loc[c].userName
                              \/ loc[d].projectName # loc[c].projectName))
                           => rec.project_id # loc[d].projectID]_vars

\* the connections that calls hold
Holders == {c \in Calls : loc[c].conn}

\* call c is not waiting for its own upstream
Runnable(c) == alive /\ pc[c] # "Done" /\ ~up[c].stalled

\* C22 as claimed: a call that is not itself waiting for the upstream can
\* always take its next step, whatever the other calls are waiting for and
\* however many they are: at pool.Get there is a connection for it,
\* elsewhere its step is enabled.
C22_NeverBlocked ==
    \A c \in Calls :
        Runnable(c)
        => IF pc[c] = "GetDB"
           THEN pool > 0
           ELSE ENABLED CallStep(c, EnvOfBusy(c))

\* C22 amended: a call is never held up by another call except at
\* pool.Get. There it goes on whenever the pool has a connection, which it
\* has whenever the calls in flight are the only holders (they are fewer
\* than the pool is large); with every connection held it waits, and once
\* its deadline has passed the only step left to it ends the process.
C22_BlockedOnlyAtPool ==
    \A c \in Calls :
        Runnable(c)
        => /\ pc[c] # "GetDB" => ENABLED CallStep(c, EnvOfBusy(c))
           /\ (pc[c] = "GetDB" /\ pool > 0)
                => ENABLED (GetDB(c, EnvOfBusy(c)) /\ pc'[c] = "AuthCheck")
           /\ (pc[c] = "GetDB" /\ pool + Cardinality(Holders) = PoolSize)
                => pool > 0
           /\ (pc[c] = "GetDB" /\ pool = 0)
                => /\ ~ENABLED (GetDB(c, EnvOfBusy(c)) /\ pc'[c] = "AuthCheck")
                   /\ ~CtxDone(c) => ~ENABLED CallStep(c, EnvOfBusy(c))
                   /\ CtxDone(c) => ENABLED (GetDB(c, EnvOfBusy(c)) /\ ~alive')

\* a call waits at pool.Get while the call that holds the last connection
\* waits for the upstream
C22_Witness ==
    \E c, d \in Calls :
        /\ alive /\ pc[c] = "GetDB" /\ pool = 0 /\ ~CtxDone(c)
        /\ loc[d].conn /\ up[d].stalled /\ pc[d] = "Forward"

\* C23: a call holds a connection exactly from pool.Get to its return,
\* whichever return it is; the connections out of the pool are as many as
\* the calls between the two, none when no call is in flight; a step takes
\* or returns at most one connection, and only the call's own steps at
\* pool.Get and at its return do.
C23_OneConnection ==
    /\ [](
           /\ \A c \in Calls :
                 loc[c].conn <=> pc[c] \notin {"MethodCheck", "GetDB", "Done"}
           /\ PoolSize - pool = Cardinality(Holders)
           /\ (\A c \in Calls : pc[c] \in {"MethodCheck", "Done"}) => pool = PoolSize)
    /\ [][
           \A c \in Calls :
              /\ (~loc[c].conn /\ loc'[c].conn)
                   => (pc[c] = "GetDB" /\ pool' = pool - 1)
              /\ (loc[c].conn /\ ~loc'[c].conn)
                   => (pc'[c] = "Done" /\ pool' = pool + 1)
              /\ (pc[c] = "GetDB" /\ pc'[c] = "Done") => FALSE]_vars

\* one call has left by an error exit and given its connection back while
\* the other still holds its own
C23_Witness ==
    \E c, d \in Calls :
        /\ pc[c] = "Done" /\ loc[c].nStmt >= 1 /\ loc[c].errors # {}
        /\ Status(w[c]) \in {400, 401, 500, 502}
        /\ ~loc[c].conn
        /\ loc[d].conn /\ pool = PoolSize - 1

\* C24: every model row has a name the tokenizer lookup accepts, and only
\* the insert of getModelID by a call with such a name adds one; a call
\* answered 400 for its body or its model has added no model row, made no
\* outbound request and written no usage record, while the project row of
\* its user and label is there.
C24_ModelRowsOnlyForSupported ==
    /\ [](
           /\ \A m \in models : m.name \in SupportedModels
           /\ \A c \in Calls :
                 (pc[c] = "Done" /\ loc[c].errors \cap {"parse", "model"} # {})
                 => /\ Status(w[c]) = 400
                    /\ loc[c].modelID = 0
                    /\ loc[c].nStmt = 3
                    /\ loc[c].nDo = 0 /\ up[c].outReq = NoOutReq
                    /\ loc[c].nSaved = 0
                    /\ \E p \in projects :
                          /\ p.id = loc[c].projectID
                          /\ p.user_id = loc[c].userID
                          /\ p.name = loc[c].projectName)
    /\ [][
           /\ \A c \in Calls :
                 (pc[c] = "BodyDecode" /\ pc'[c] = "Done")
                 => (models' = models /\ usage' = usage)
           /\ models' # models
                => \E c \in Calls :
                      /\ pc[c] = "ModelInsert" /\ pc'[c] = "ModelSelect"
                      /\ loc[c].crb.Model \in SupportedModels
                      /\ models' = models \cup
                            {[id |-> NextRowID(models), name |-> loc[c].crb.Model]}]_vars

\* a call for a model the tokenizer does not know was answered 400: its
\* project row is there, no model row, no outbound request, no usage
C24_Witness ==
    \E c \in Calls :
        /\ pc[c] = "Done" /\ "model" \in loc[c].errors
        /\ loc[c].crb.Model = "bogus"
        /\ Status(w[c]) = 400
        /\ \E p \in projects : p.id = loc[c].projectID
        /\ models = {} /\ usage = <<>> /\ loc[c].nDo = 0

\* C25: in the prompt-style handler a call that asked for a stream was
\* answered 400 after its project was resolved and before its model was:
\* three statements run, a project row, no model ID, no model row, no
\* outbound request, no usage record. No call with the stream flag gets
\* past the decoding of its body, and no call ever stands in the streaming
\* relay.
C25_PromptRejectsStream ==
    \A c \in Calls :
        /\ (pc[c] = "Done" /\ "stream" \in loc[c].errors)
             => /\ req[c].body.Stream
                /\ Status(w[c]) = 400
                /\ loc[c].nStmt = 3
                /\ \E p \in projects :
                      /\ p.id = loc[c].projectID
                      /\ p.user_id = loc[c].userID
                      /\ p.name = loc[c].projectName
                /\ loc[c].modelID = 0 /\ models = {}
                /\ loc[c].nDo = 0 /\ up[c].outReq = NoOutReq
                /\ loc[c].nSaved = 0 /\ usage = <<>>
        /\ (req[c].body.wellFormed /\ req[c].body.Stream)
             => /\ pc[c] \in {"BodyDecode", "Done"}
                /\ pc[c] = "Done" => "stream" \in loc[c].errors
        /\ pc[c] \notin {"SSEStart", "SSERead", "SSEWrite", "SSEMsg", "SSESave"}
        /\ (ModelResolved(c) \/ pc[c] \in {"ModelInsert", "ModelSelect"})
             => ~loc[c].crb.Stream

\* a streamed request for a model the tokenizer does not know is turned
\* down for the stream, its project row made
C25_Witness ==
    \E c \in Calls :
        /\ pc[c] = "Done" /\ loc[c].errors = {"stream"}
        /\ req[c].body = MkBody("bogus", <<>>, TRUE, "")
        /\ Status(w[c]) = 400
        /\ projects # {} /\ models = {} /\ usage = <<>> /\ loc[c].nDo = 0

\* C26: a step that gives an existing user name another key keeps the row's
\* id and name and changes nothing else: after it the old key finds no
\* user, the new key finds that user, the projects, the usage and what every
\* call in flight holds are as before. A call that authenticated with a key
\* its user has since lost still writes its record to the project of that
\* user and of its label.
C26_KeyReplacement ==
    [][/\ \A u \in users : \A v \in users' :
             (u.name = v.name /\ u.key # v.key)
             => /\ v.id = u.id
                /\ users' = (users \ {u}) \cup {v}
                /\ adminOut' = <<"set-user-key", "created/updated">>
                /\ ~findUserByKey(u.key)'.userFound
                /\ findUserByKey(v.key)' =
                      [userID |-> u.id, userName |-> u.name, userFound |-> TRUE]
                /\ UNCHANGED <<projects, models, usage, pc, req, loc, up, w>>
       /\ \A c \in Calls :
             (/\ Saved(c)
              /\ \E u \in users :
                    u.id = loc[c].userID /\ u.name = loc[c].userName
                    /\ u.key # Credential(c))
             => LET rec == usage'[Len(usage')]
                    p == RowOf(projects, rec.project_id)
                IN /\ rec.project_id = loc[c].projectID
                   /\ p.name = loc[c].projectName
                   /\ RowOf(users, p.user_id).name = loc[c].userName
                   /\ findUserByKey(Credential(c)).userName # loc[c].userName]_vars

\* alice's key was replaced while a call authenticated with the old key
\* was in flight: that call has saved its usage, and a call authenticated
\* with the new key holds the same user and the same project
C26_Witness ==
    \E c, d \in Calls :
        /\ users = {[id |-> 1, name |-> "alice", key |-> <<"k2">>]}
        /\ adminOut = <<"set-user-key", "created/updated">>
        /\ Credential(c) = <<"k1">> /\ loc[c].nSaved = 1
        /\ Credential(d) = <<"k2">> /\ ProjectResolved(d)
        /\ loc[c].userID = 1 /\ loc[d].userID = 1
        /\ loc[c].userName = "alice" /\ loc[d].userName = "alice"
        /\ loc[c].projectID = loc[d].projectID
        /\ \E i \in 1..Len(usage) : usage[i].project_id = loc[c].projectID

====
